---- MODULE Spec2Model ----
(***************************************************************************)
(* A model of package-analyzer (src/package_analyzer): the dependency      *)
(* graph builder (visualizer.py), the registry metadata fetch              *)
(* (scraper.py), the vulnerability report (security_analyzer.py), the      *)
(* issue tracker (issue_tracker.py) and the command line entry (cli.py).   *)
(*                                                                         *)
(* Strings that the code parses are sequences of tokens: a token is a run  *)
(* of characters that no operation of the code splits (a name, a version   *)
(* constraint) or a single separator character (" ", ";", "/").            *)
(* Adjacent tokens do not merge. Numbers with one decimal (scores) are     *)
(* counted in tenths.                                                      *)
(***************************************************************************)
EXTENDS Integers, Sequences, FiniteSets, TLC

VARIABLES
    \* the registry (pypi.org/pypi/<name>/json), revealed request by request
    registry,
    \* create_dependency_graph: max_depth, visited, dot.body, the recursion
    \* of add_dependencies, the requests made, and where the call stands
    maxDepth, visited, dot, stack, lookups, gpc,
    \* scraper.fetch_package_info: where the call stands and what it returned
    spc, sarg, srecord, spage,
    \* SecurityAnalyzer._process_vulnerabilities
    \* and the local severity_score of the last call of _determine_severity
    pkgName, vulns, sidx, processed_data, secpc, severity_score,
    \* IssueTracker.analyze_issues
    ipc, pypiResp, statsResp, recentResp, topResp, repo_info, main_stats,
    recent_issues, iresult, requests, warnings,
    \* cli.main
    mpc, flags, outputs, errorsPrinted, raisedBy

graphVars == <<maxDepth, visited, dot, stack, lookups, gpc>>
scraperVars == <<spc, sarg, srecord, spage>>
secVars == <<pkgName, vulns, sidx, processed_data, secpc, severity_score>>
issueVars == <<ipc, pypiResp, statsResp, recentResp, topResp, repo_info,
               main_stats, recent_issues, iresult, requests, warnings>>
mainVars == <<mpc, flags, outputs, errorsPrinted, raisedBy>>
vars == <<registry, graphVars, scraperVars, secVars, issueVars, mainVars>>

\* Python's None
None == "None"

Last(s) == s[Len(s)]
Front(s) == SubSeq(s, 1, Len(s) - 1)
SeqsUpTo(S, n) == UNION {[1..k -> S] : k \in 0..n}
Range(s) == {s[i] : i \in 1..Len(s)}

----------------------------------------------------------------------------
(* Text *)

Whitespace == {" ", "\t", "\n"}

RECURSIVE IndexOf(_, _, _)
\* the first position >= i of token sep in s, or Len(s) + 1
IndexOf(s, sep, i) ==
    IF i > Len(s) THEN Len(s) + 1
    ELSE IF s[i] = sep THEN i
    ELSE IndexOf(s, sep, i + 1)

\* s.split(sep)[0]
SplitFirst(s, sep) == SubSeq(s, 1, IndexOf(s, sep, 1) - 1)

RECURSIVE LStrip(_)
LStrip(s) == IF s # <<>> /\ Head(s) \in Whitespace THEN LStrip(Tail(s)) ELSE s

RECURSIVE RStrip(_)
RStrip(s) == IF s # <<>> /\ Last(s) \in Whitespace THEN RStrip(Front(s)) ELSE s

\* s.strip()
Strip(s) == RStrip(LStrip(s))

\* visualizer.py:49  dep.split(" ")[0].split(";")[0].strip()
DepName(dep) == Strip(SplitFirst(SplitFirst(dep, " "), ";"))

\* scraper.py:127  dep.split(";")[0].strip()
ScraperDep(dep) == Strip(SplitFirst(dep, ";"))

----------------------------------------------------------------------------
(* The registry *)

\* the package given on the command line, and the packages it may lead to
PackageArg == <<"a">>
Packages == {<<"a">>, <<"b">>, <<"c">>}

\* requirement strings: "a", "b (>1)", "c; m" and the empty string
Requirements ==
    {<<"a">>, <<"b", " ", "(>1)">>, <<"c", ";", " ", "m">>, <<>>}

\* the requirement strings that the registry declares in all, and the
\* deepest max_depth asked for
MaxRequirements == 4
MaxDepthBound == 3

\* a response to GET /pypi/<name>/json: a failure (raise_for_status raises
\* an HTTPError, a RequestException) or a payload whose info.requires_dist
\* holds n requirement strings or fewer
Responses(n) ==
    {[known |-> TRUE, ok |-> FALSE, requires_dist |-> <<>>]}
    \cup [known : {TRUE}, ok : {TRUE},
          requires_dist : SeqsUpTo(Requirements, n)]

\* no request for the package was made yet
NotAsked == [known |-> FALSE, ok |-> FALSE, requires_dist |-> <<>>]

RECURSIVE Declared(_)
\* the requirement strings in the answers given so far for the packages S
Declared(S) ==
    IF S = {} THEN 0
    ELSE LET p == CHOOSE q \in S : TRUE
         IN  Len(registry[p].requires_dist) + Declared(S \ {p})

\* what a request for pkg may answer: the registry answers for one package
\* the same way throughout one run
LookupResults(pkg) ==
    IF registry[pkg].known THEN {registry[pkg]}
    ELSE Responses(MaxRequirements - Declared(Packages))

RegistryInit == registry = [p \in Packages |-> NotAsked]

----------------------------------------------------------------------------
(* visualizer.create_dependency_graph *)

NodeStmt(name, fill) == [kind |-> "node", name |-> name, fill |-> fill]
EdgeStmt(tail, head) == [kind |-> "edge", tail |-> tail, head |-> head]

Frame(pkg, depth) == [pkg |-> pkg, depth |-> depth, i |-> 1]

\* a mutant of ShouldStop: the depth bound is off by one
ShouldStopOffByOne(pkg, depth) == depth > maxDepth \/ pkg \in visited

\* visualizer.py:33
ShouldStop(pkg, depth) == depth >= maxDepth \/ pkg \in visited

\* visualizer.py:53
NotVisited(pkg) == pkg \notin visited

\* a mutant of MarkVisited: the package is not recorded as visited
MarkVisitedForgets(vis, pkg) == vis

\* visualizer.py:36  visited.add(pkg_name)
MarkVisited(vis, pkg) == vis \cup {pkg}

\* a mutant of Caught: the handler names an exception the request never raises
CaughtNothing(exc) == FALSE

\* visualizer.py:56  except requests.exceptions.RequestException
Caught(exc) == exc \in {"RequestException", "HTTPError", "ConnectionError"}

\* add_dependencies(pkg, depth), called with the callers' frames stk and the
\* graph body d: lines 33-43 and, when the request fails, lines 56-58
AddDependencies(pkg, depth, stk, d) ==
    IF ShouldStop(pkg, depth)
    THEN /\ stack' = stk
         /\ dot' = d
         /\ gpc' = "running"
         /\ UNCHANGED <<visited, lookups, registry>>
    ELSE \E r \in LookupResults(pkg) :
         /\ registry' = [registry EXCEPT ![pkg] = r]
         /\ visited' = MarkVisited(visited, pkg)
         /\ lookups' = Append(lookups, [pkg |-> pkg, depth |-> depth,
                                        caller |-> IF stk = <<>> THEN <<>>
                                                   ELSE Last(stk).pkg])
         /\ IF r.ok
            THEN /\ dot' = Append(d, NodeStmt(pkg, "lightblue"))
                 /\ stack' = Append(stk, Frame(pkg, depth))
                 /\ gpc' = "running"
            ELSE IF Caught("HTTPError")
            THEN /\ dot' = Append(d, NodeStmt(pkg, "lightgray"))
                 /\ stack' = stk
                 /\ gpc' = "running"
            ELSE /\ dot' = d
                 /\ stack' = <<>>
                 /\ gpc' = "raised"

\* visualizer.py:61  add_dependencies(package_name)
GraphStart ==
    /\ gpc = "start"
    /\ AddDependencies(PackageArg, 0, <<>>, dot)
    /\ UNCHANGED <<maxDepth>>

\* visualizer.py:46-54  one iteration of the loop over requires_dist
GraphDep ==
    /\ gpc = "running"
    /\ stack # <<>>
    /\ LET f == Last(stack)
           deps == registry[f.pkg].requires_dist
       IN  /\ f.i <= Len(deps)
           /\ LET dep == deps[f.i]
                  dep_name == DepName(dep)
                  stk == [stack EXCEPT ![Len(stack)].i = f.i + 1]
              IN  IF dep # <<>> /\ dep_name # <<>>
                  THEN IF NotVisited(dep_name)
                       THEN AddDependencies(dep_name, f.depth + 1, stk,
                                            Append(dot, EdgeStmt(f.pkg, dep_name)))
                       ELSE /\ dot' = Append(dot, EdgeStmt(f.pkg, dep_name))
                            /\ stack' = stk
                            /\ UNCHANGED <<visited, lookups, registry, gpc>>
                  ELSE /\ stack' = stk
                       /\ UNCHANGED <<dot, visited, lookups, registry, gpc>>
    /\ UNCHANGED <<maxDepth>>

\* the loop over requires_dist is over: add_dependencies returns to its caller
GraphReturn ==
    /\ gpc = "running"
    /\ stack # <<>>
    /\ Last(stack).i > Len(registry[Last(stack).pkg].requires_dist)
    /\ stack' = Front(stack)
    /\ UNCHANGED <<registry, maxDepth, visited, dot, lookups, gpc>>

\* visualizer.py:62  return dot
GraphFinish ==
    /\ gpc = "running"
    /\ stack = <<>>
    /\ gpc' = "done"
    /\ UNCHANGED <<registry, maxDepth, visited, dot, stack, lookups>>

GraphStep == GraphStart \/ GraphDep \/ GraphReturn \/ GraphFinish

GraphIdle ==
    /\ maxDepth = 0
    /\ visited = {}
    /\ dot = <<>>
    /\ stack = <<>>
    /\ lookups = <<>>
    /\ gpc = "idle"

GraphInit ==
    /\ maxDepth \in 0..MaxDepthBound
    /\ visited = {}
    /\ dot = <<>>
    /\ stack = <<>>
    /\ lookups = <<>>
    /\ gpc = "start"

\* the graph that is returned
Nodes == {s.name : s \in {t \in Range(dot) : t.kind = "node"}}
GrayNodes == {s.name : s \in {t \in Range(dot) : t.kind = "node" /\ t.fill = "lightgray"}}
Edges == {<<s.tail, s.head>> : s \in {t \in Range(dot) : t.kind = "edge"}}

----------------------------------------------------------------------------
(* scraper.fetch_package_info *)

\* an element of the project page: found with its text, or not found
Found(text) == [present |-> TRUE, text |-> text]
NotFound == [present |-> FALSE, text |-> <<>>]

\* no record: the call has not returned one
NoRecord == [returned |-> FALSE]

\* scraper.py:117-128  _extract_dependencies
ExtractDependencies(requires_dist) ==
    LET kept == SelectSeq(requires_dist, LAMBDA dep : dep # <<>>)
    IN  [i \in 1..Len(kept) |-> ScraperDep(kept[i])]

\* scraper.py:70-73  _extract_installation_guide: the default is a plain
\* string, not an f-string
ExtractInstallationGuide(page) ==
    IF page.install.present THEN Strip(page.install.text)
    ELSE <<"pip install {package_name}">>

\* the release cards looked at
ReleaseLimit == 5

\* scraper.py:76-84  _extract_latest_releases
ExtractLatestReleases(page) ==
    LET cards == SubSeq(page.cards, 1,
                        IF Len(page.cards) < ReleaseLimit THEN Len(page.cards)
                        ELSE ReleaseLimit)
        kept == SelectSeq(cards, LAMBDA c : c.present)
    IN  [i \in 1..Len(kept) |-> Strip(kept[i].text)]

\* scraper.py:100-114  _extract_community_info
ExtractCommunityInfo(page) ==
    [maintainers |-> IF page.maintainers.present
                     THEN [i \in 1..Len(page.maintainers.spans) |->
                              Strip(page.maintainers.spans[i])]
                     ELSE <<>>]

\* a dict, as the sequence of its <<key, value>> items in insertion order:
\* d[k] = v replaces the value of a key that is there and appends otherwise
RECURSIVE DictSet(_, _, _)
DictSet(d, k, v) ==
    IF d = <<>> THEN <<<<k, v>>>>
    ELSE IF Head(d)[1] = k THEN <<<<k, v>>>> \o Tail(d)
    ELSE <<Head(d)>> \o DictSet(Tail(d), k, v)

\* a paragraph of the stats panel: its name span and its value span
Para(name, value) == [name |-> name, value |-> value]

\* scraper.py:87-97  _extract_project_stats
RECURSIVE StatsOf(_, _)
StatsOf(paras, stats) ==
    IF paras = <<>> THEN stats
    ELSE LET stat == Head(paras)
         IN  StatsOf(Tail(paras),
                     IF stat.name.present /\ stat.value.present
                     THEN DictSet(stats, Strip(stat.name.text),
                                  Strip(stat.value.text))
                     ELSE stats)

ExtractProjectStats(page) ==
    IF page.stats.present THEN StatsOf(page.stats.paras, <<>>) ELSE <<>>

\* the parts of a project page
NoDiv == [present |-> FALSE, paras |-> <<>>, spans |-> <<>>]
Installs == {NotFound, Found(<<"pip install a", "\n">>)}
CardLists ==
    {<<>>, <<NotFound>>, <<Found(<<"1.0">>), NotFound>>,
     <<Found(<<"6">>), Found(<<"5">>), Found(<<"4">>), Found(<<"3">>),
       Found(<<"2">>), Found(<<"1">>)>>}
StatsPanels ==
    {NoDiv, [present |-> TRUE, paras |-> <<>>, spans |-> <<>>],
     [present |-> TRUE, spans |-> <<>>,
      paras |-> <<Para(Found(<<"Stars">>), Found(<<" ", "5">>)),
                  Para(Found(<<"Forks">>), NotFound),
                  Para(Found(<<"Stars", " ">>), Found(<<"7">>))>>]}
MaintainerDivs ==
    {NoDiv, [present |-> TRUE, paras |-> <<>>, spans |-> <<<<" ", "m">>>>]}

\* a project page with all its markup, one with none of it, and a request
\* for the page that fails
FullPage ==
    [ok |-> TRUE, install |-> Found(<<"pip install a", "\n">>),
     cards |-> <<Found(<<"1.0">>), NotFound>>,
     stats |-> [present |-> TRUE, paras |-> <<>>, spans |-> <<>>],
     maintainers |-> [present |-> TRUE, paras |-> <<>>,
                      spans |-> <<<<" ", "m">>>>]]
BarePage ==
    [ok |-> TRUE, install |-> NotFound, cards |-> <<>>, stats |-> NoDiv,
     maintainers |-> NoDiv]
FailedPage ==
    [ok |-> FALSE, install |-> NotFound, cards |-> <<>>, stats |-> NoDiv,
     maintainers |-> NoDiv]
NoPage == [ok |-> FALSE, asked |-> FALSE]

\* the answers to the request for the project page
Pages ==
    {FailedPage}
    \cup [ok : {TRUE}, install : Installs, cards : CardLists,
          stats : StatsPanels, maintainers : MaintainerDivs]

\* scraper.py:29-47  _fetch_api_data: raise_for_status raises on a failure
ScraperApi(names, versions) ==
    /\ spc = "idle"
    /\ \E name \in names, version \in versions : \E r \in LookupResults(name) :
         /\ registry' = [registry EXCEPT ![name] = r]
         /\ sarg' = [name |-> name, version |-> version]
         /\ IF r.ok
            THEN /\ spc' = "api_done"
                 /\ srecord' = [returned |-> FALSE, name |-> name,
                                version |-> IF version # None THEN version
                                            ELSE "latest",
                                dependencies |-> ExtractDependencies(r.requires_dist)]
            ELSE /\ spc' = "raised"
                 /\ srecord' = NoRecord
    /\ UNCHANGED spage

\* scraper.py:50-67  _scrape_pypi_page, and the merge of lines 25-26
ScraperPage(pages) ==
    /\ spc = "api_done"
    /\ \E page \in pages :
         /\ spage' = page
         /\ IF page.ok
            THEN /\ spc' = "returned"
                 /\ srecord' =
                       [returned |-> TRUE, name |-> srecord.name,
                        version |-> srecord.version,
                        dependencies |-> srecord.dependencies,
                        installation_guide |-> ExtractInstallationGuide(page),
                        latest_releases |-> ExtractLatestReleases(page),
                        project_stats |-> ExtractProjectStats(page),
                        community_info |-> ExtractCommunityInfo(page)]
            ELSE /\ spc' = "raised"
                 /\ srecord' = NoRecord
    /\ UNCHANGED <<registry, sarg>>

ScraperIdle ==
    /\ spc = "idle"
    /\ sarg = [name |-> <<>>, version |-> None]
    /\ srecord = NoRecord
    /\ spage = NoPage

----------------------------------------------------------------------------
(* security_analyzer.SecurityAnalyzer *)

\* str.lower(), token by token
Lower(t) ==
    CASE t = "Flask" -> "flask"
      [] t = "RCE" -> "rce"
      [] t = "Remote" -> "remote"
      [] t = "Authentication" -> "authentication"
      [] OTHER -> t
LowerText(s) == [i \in 1..Len(s) |-> Lower(s[i])]

\* kw in text
Contains(text, kw) ==
    \E i \in 0..(Len(text) - Len(kw)) : SubSeq(text, i + 1, i + Len(kw)) = kw

\* security_analyzer.py:10-20
SecurityCriticalPackages ==
    {<<"cryptography">>, <<"django">>, <<"flask">>, <<"requests">>,
     <<"urllib3">>, <<"pyopenssl">>, <<"paramiko">>, <<"pyjwt">>,
     <<"python-jose">>}

\* security_analyzer.py:21-34
CriticalKeywords ==
    {<<"remote", " ", "code", " ", "execution">>, <<"rce">>,
     <<"arbitrary", " ", "code">>, <<"sql", " ", "injection">>,
     <<"authentication", " ", "bypass">>, <<"privilege", " ", "escalation">>,
     <<"buffer", " ", "overflow">>, <<"memory", " ", "corruption">>,
     <<"denial", " ", "of", " ", "service">>,
     <<"information", " ", "disclosure">>, <<"path", " ", "traversal">>,
     <<"xss">>}

\* security_analyzer.py:92
TypeKeywords == {<<"cryptographic">>, <<"encryption">>, <<"authentication">>}

\* the weights of the score, in tenths
KeywordWeight == 20
PackageWeight == 10
TypeWeight == 15
ImpactWeight == 20

\* the thresholds of the severity levels, in tenths
CriticalFrom == 90
HighFrom == 70
MediumFrom == 40

\* database_specific.cvss_score: not there (or None, or empty), a text that
\* float() refuses, or a number, in tenths
NoCvss == [kind |-> "absent", tenths |-> 0]
BadCvss == [kind |-> "text", tenths |-> 0]
Cvss(n) == [kind |-> "number", tenths |-> n]

\* security_analyzer.py:64-72
CvssPoints(vulnerability) ==
    IF vulnerability.cvss.kind = "number" THEN vulnerability.cvss.tenths ELSE 0

\* security_analyzer.py:75-78
Description(vulnerability) ==
    LowerText(vulnerability.summary) \o LowerText(vulnerability.details)

\* a mutant of ImpactPoints: the flag counts once, however many entries
\* carry it
ImpactPointsOnce(entries) ==
    IF \E i \in 1..Len(entries) :
          /\ ~entries[i].ecosystem_specific.empty
          /\ entries[i].ecosystem_specific.affects_security
    THEN ImpactWeight ELSE 0

\* security_analyzer.py:97-103
RECURSIVE ImpactPoints(_)
ImpactPoints(entries) ==
    IF entries = <<>> THEN 0
    ELSE (IF /\ ~Head(entries).ecosystem_specific.empty
             /\ Head(entries).ecosystem_specific.affects_security
          THEN ImpactWeight ELSE 0) + ImpactPoints(Tail(entries))

\* security_analyzer.py:61-103  severity_score, in tenths
SeverityScore(vulnerability, package_name) ==
    CvssPoints(vulnerability)
    + KeywordWeight
        * Cardinality({kw \in CriticalKeywords :
                          Contains(Description(vulnerability), kw)})
    + (IF LowerText(package_name) \in SecurityCriticalPackages
       THEN PackageWeight ELSE 0)
    + (IF \E kw \in TypeKeywords : Contains(Description(vulnerability), kw)
       THEN TypeWeight ELSE 0)
    + ImpactPoints(vulnerability.affected.entries)

\* a mutant of Classify: the thresholds are exclusive
ClassifyExclusive(score) ==
    IF score > CriticalFrom THEN "CRITICAL"
    ELSE IF score > HighFrom THEN "HIGH"
    ELSE IF score > MediumFrom THEN "MEDIUM"
    ELSE "LOW"

\* security_analyzer.py:105-112
Classify(score) ==
    IF score >= CriticalFrom THEN "CRITICAL"
    ELSE IF score >= HighFrom THEN "HIGH"
    ELSE IF score >= MediumFrom THEN "MEDIUM"
    ELSE "LOW"

\* security_analyzer.py:58-112
DetermineSeverity(vulnerability, package_name) ==
    Classify(SeverityScore(vulnerability, package_name))

\* security_analyzer.py:157
SeverityOrder(severity) ==
    CASE severity = "CRITICAL" -> 0
      [] severity = "HIGH" -> 1
      [] severity = "MEDIUM" -> 2
      [] severity = "LOW" -> 3

Severities == {"CRITICAL", "HIGH", "MEDIUM", "LOW"}

RECURSIVE Flatten(_)
Flatten(ss) == IF ss = <<>> THEN <<>> ELSE Head(ss) \o Flatten(Tail(ss))

\* security_analyzer.py:133-137  the fixed versions of one affected entry
FixedOfEntry(entry) ==
    Flatten([r \in 1..Len(entry.ranges) |->
        IF entry.ranges[r].type = "ECOSYSTEM"
        THEN LET fixed == SelectSeq(entry.ranges[r].events,
                                    LAMBDA ev : ev.kind = "fixed")
             IN  [k \in 1..Len(fixed) |-> fixed[k].version]
        ELSE <<>>])

\* security_analyzer.py:131-137
FixedVersions(vuln) ==
    Flatten([a \in 1..Len(vuln.affected.entries) |->
                FixedOfEntry(vuln.affected.entries[a])])

\* security_analyzer.py:149  vuln.get("affected", [{}])[0] raises an
\* IndexError when the key is there with an empty list
FirstAffectedRaises(vuln) ==
    vuln.affected.present /\ vuln.affected.entries = <<>>

NoAnnotation == [empty |-> TRUE, affects_security |-> FALSE]

\* security_analyzer.py:140-152
VulnInfo(vuln, severity) ==
    [id |-> vuln.id,
     severity |-> severity,
     summary |-> vuln.summary,
     details |-> vuln.details,
     fixed_versions |-> FixedVersions(vuln),
     ecosystem_specific |->
        IF vuln.affected.present
        THEN vuln.affected.entries[1].ecosystem_specific
        ELSE NoAnnotation]

\* a mutant of Increment: a LOW finding is not counted
IncrementButLow(counts, severity) ==
    IF severity = "LOW" THEN counts
    ELSE [counts EXCEPT ![severity] = @ + 1]

\* security_analyzer.py:128
Increment(counts, severity) == [counts EXCEPT ![severity] = @ + 1]

\* a mutant of Insert: an entry is put before the entries of its own rank
RECURSIVE InsertBeforeEqual(_, _)
InsertBeforeEqual(sorted, x) ==
    IF sorted = <<>> THEN <<x>>
    ELSE IF SeverityOrder(x.severity) <= SeverityOrder(Head(sorted).severity)
    THEN <<x>> \o sorted
    ELSE <<Head(sorted)>> \o InsertBeforeEqual(Tail(sorted), x)

\* list.sort is stable: an entry goes behind the entries of its own key
RECURSIVE Insert(_, _)
Insert(sorted, x) ==
    IF sorted = <<>> THEN <<x>>
    ELSE IF SeverityOrder(x.severity) < SeverityOrder(Head(sorted).severity)
    THEN <<x>> \o sorted
    ELSE <<Head(sorted)>> \o Insert(Tail(sorted), x)

\* security_analyzer.py:157-160
RECURSIVE SortBySeverity(_)
SortBySeverity(list) ==
    IF list = <<>> THEN <<>>
    ELSE Insert(SortBySeverity(Front(list)), Last(list))

\* the findings that the vulnerability database may return
AffectsSecurity == [empty |-> FALSE, affects_security |-> TRUE]
OtherAnnotation == [empty |-> FALSE, affects_security |-> FALSE]
Entry(annotation, ranges) == [ecosystem_specific |-> annotation, ranges |-> ranges]
EcosystemRange(events) == [type |-> "ECOSYSTEM", events |-> events]
Introduced(v) == [kind |-> "introduced", version |-> v]
Fixed(v) == [kind |-> "fixed", version |-> v]
NoAffected == [present |-> FALSE, entries |-> <<>>]
Affected(entries) == [present |-> TRUE, entries |-> entries]

Findings ==
    {[id |-> "V1", cvss |-> Cvss(98),
      summary |-> <<"Remote", " ", "code", " ", "execution">>,
      details |-> <<>>,
      affected |-> Affected(<<Entry(OtherAnnotation,
                      <<EcosystemRange(<<Introduced("0"), Fixed("1.1")>>)>>)>>)],
     [id |-> "V2", cvss |-> Cvss(80), summary |-> <<"crash">>,
      details |-> <<>>, affected |-> NoAffected],
     [id |-> "V3", cvss |-> NoCvss,
      summary |-> <<"minor", " ", "formatting", " ", "issue">>,
      details |-> <<>>, affected |-> NoAffected],
     [id |-> "V4", cvss |-> Cvss(30),
      summary |-> <<"Authentication", " ", "bypass">>,
      details |-> <<>>, affected |-> NoAffected],
     [id |-> "V5", cvss |-> BadCvss, summary |-> <<"leak">>,
      details |-> <<"x">>,
      affected |-> Affected(<<Entry(AffectsSecurity, <<>>),
                              Entry(AffectsSecurity,
                      <<EcosystemRange(<<Fixed("2.0")>>),
                        [type |-> "GIT", events |-> <<Fixed("abc")>>]>>)>>)],
     [id |-> "V6", cvss |-> Cvss(39), summary |-> <<"typo">>,
      details |-> <<>>, affected |-> NoAffected],
     [id |-> "V7", cvss |-> Cvss(60), summary |-> <<"bug">>,
      details |-> <<>>, affected |-> Affected(<<>>)],
     [id |-> "V8", cvss |-> Cvss(70), summary |-> <<"hang">>,
      details |-> <<>>, affected |-> NoAffected]}

PackageNames == {<<"Flask">>, <<"cryptography">>, <<"some-unknown-pkg">>}

\* the findings of one answer of the vulnerability database
MaxVulns == 3

\* security_analyzer.py:120-124
SecBegin ==
    /\ secpc = "called"
    /\ processed_data' =
          [total_vulnerabilities |-> Len(vulns),
           severity_counts |-> [sev \in Severities |-> 0],
           vulnerabilities |-> <<>>]
    /\ sidx' = 1
    /\ secpc' = "loop"
    /\ UNCHANGED <<pkgName, vulns, severity_score>>

\* security_analyzer.py:126-154  one iteration of the loop over the findings
SecLoop ==
    /\ secpc = "loop"
    /\ sidx <= Len(vulns)
    /\ LET vuln == vulns[sidx]
           severity == DetermineSeverity(vuln, pkgName)
           counted == [processed_data EXCEPT !.severity_counts =
                          Increment(@, severity)]
       IN  IF FirstAffectedRaises(vuln)
           THEN /\ processed_data' = counted
                /\ secpc' = "raised"
                /\ sidx' = sidx
           ELSE /\ processed_data' =
                      [counted EXCEPT !.vulnerabilities =
                          Append(@, VulnInfo(vuln, severity))]
                /\ secpc' = "loop"
                /\ sidx' = sidx + 1
    /\ severity_score' = SeverityScore(vulns[sidx], pkgName)
    /\ UNCHANGED <<pkgName, vulns>>

\* security_analyzer.py:156-162
SecSort ==
    /\ secpc = "loop"
    /\ sidx > Len(vulns)
    /\ processed_data' = [processed_data EXCEPT !.vulnerabilities =
                             SortBySeverity(@)]
    /\ secpc' = "returned"
    /\ UNCHANGED <<pkgName, vulns, sidx, severity_score>>

SecStep == SecBegin \/ SecLoop \/ SecSort

SecInit ==
    /\ pkgName \in PackageNames
    /\ vulns \in SeqsUpTo(Findings, MaxVulns)
    /\ sidx = 0
    /\ processed_data = <<>>
    /\ secpc = "called"
    /\ severity_score = 0

----------------------------------------------------------------------------
(* issue_tracker.IssueTracker *)

\* the methods that class IssueTracker defines (issue_tracker.py:11-160)
IssueTrackerMethods ==
    {"__init__", "analyze_issues", "_get_repo_from_pypi", "_get_repo_stats",
     "_get_recent_issues", "_get_top_issues"}

\* the exceptions that the requests and the parsing raise, all of them
\* subclasses of Exception
RequestErrors == {"HTTPError", "ConnectionError", "Timeout"}
Exceptions == RequestErrors \cup {"ValueError", "KeyError", "AttributeError"}

\* a mutant of IssueHandled: the handlers name the request errors only
IssueHandledRequestsOnly(exc) == exc \in RequestErrors

\* issue_tracker.py:60, 86, 122, 158  except Exception
IssueHandled(exc) == exc \in Exceptions

\* what a call gives: a value, or an exception
Value(v) == [raises |-> None, value |-> v]
Raises(exc) == [raises |-> exc, value |-> <<>>]

\* a project URL of the registry: None, or a text
NoUrl == [isNone |-> TRUE, text |-> <<>>]
Url(text) == [isNone |-> FALSE, text |-> text]
DocsUrl == Url(<<"https:", "/", "/", "example.org", "/", "docs">>)
RepoUrl == Url(<<"https:", "/", "/", "GitHub.com", "/", "o", "/", "r", "/">>)
ProjectUrls == {NoUrl, DocsUrl, RepoUrl}

LowerHost(t) == IF t = "GitHub.com" THEN "github.com" ELSE Lower(t)

\* "github.com" in url.lower()
IsGithub(text) == \E i \in 1..Len(text) : LowerHost(text[i]) = "github.com"

RECURSIVE LStripSlash(_)
LStripSlash(s) ==
    IF s # <<>> /\ Head(s) = "/" THEN LStripSlash(Tail(s)) ELSE s
RECURSIVE RStripSlash(_)
RStripSlash(s) ==
    IF s # <<>> /\ Last(s) = "/" THEN RStripSlash(Front(s)) ELSE s

\* url.strip("/")
StripSlash(s) == RStripSlash(LStripSlash(s))

\* the empty dict that stands for no repository
NoRepo == [found |-> FALSE]

RECURSIVE FirstGithub(_, _)
\* issue_tracker.py:51-58  the loop over project_urls.items()
FirstGithub(items, package_name) ==
    IF items = <<>> THEN NoRepo
    ELSE IF ~Head(items).isNone /\ IsGithub(Head(items).text)
    THEN [found |-> TRUE, name |-> package_name,
          url |-> StripSlash(Head(items).text),
          source |-> "PyPI project_urls"]
    ELSE FirstGithub(Tail(items), package_name)

\* issue_tracker.py:41-58  the body of the try of _get_repo_from_pypi:
\* None.items() raises an AttributeError
RepoLookup(resp, package_name) ==
    IF ~resp.ok THEN Raises("HTTPError")
    ELSE IF resp.project_urls.isNone THEN Raises("AttributeError")
    ELSE Value(FirstGithub(resp.project_urls.items, package_name))

\* a counter of the repository page: no such span (or no title on it), a
\* title that int() refuses, or a number
NoCounter == [kind |-> "missing", n |-> 0]
TextCounter == [kind |-> "text", n |-> 0]
Counter(n) == [kind |-> "number", n |-> n]
Counters == {NoCounter, TextCounter, Counter(7)}

ZeroStats == [open_issues |-> 0, pull_requests |-> 0]

\* issue_tracker.py:66-84  the body of the try of _get_repo_stats
RepoStats(resp) ==
    IF ~resp.ok THEN Raises("HTTPError")
    ELSE IF resp.issues.kind = "text" \/ resp.prs.kind = "text"
    THEN Raises("ValueError")
    ELSE Value([open_issues |-> resp.issues.n, pull_requests |-> resp.prs.n])

\* the rows of an issue listing: a row with its title and link, a row with
\* no title element, a row whose link has no href
GoodRow == [kind |-> "good", title |-> <<" ", "Crash on start", "\n">>,
            href |-> <<"/", "o", "/", "r", "/", "issues", "/", "1">>]
NoTitleRow == [kind |-> "no_title", title |-> <<>>, href |-> <<>>]
NoHrefRow == [kind |-> "no_href", title |-> <<"Hang">>, href |-> <<>>]
Rows == {GoodRow, NoTitleRow, NoHrefRow}

\* the rows of a listing that are looked at
IssueLimit == 5

Take(s, n) == SubSeq(s, 1, IF Len(s) < n THEN Len(s) ELSE n)

\* issue_tracker.py:94-120 and 130-154  the body of the try of
\* _get_recent_issues and of _get_top_issues: title_link['href'] raises a
\* KeyError
IssueList(resp) ==
    IF ~resp.ok THEN Raises("HTTPError")
    ELSE LET rows == Take(resp.rows, IssueLimit)
             kept == SelectSeq(rows, LAMBDA row : row.kind # "no_title")
         IN  IF \E i \in 1..Len(kept) : kept[i].kind = "no_href"
             THEN Raises("KeyError")
             ELSE Value([i \in 1..Len(kept) |->
                          [title |-> Strip(kept[i].title),
                           url |-> <<"https://github.com">> \o kept[i].href,
                           comments |-> "0"]])

\* the answers of the registry, of the repository page and of the listings
MaxUrls == 2
MaxRows == 2
NoAnswer == [ok |-> FALSE]
PypiAnswers ==
    {[ok |-> FALSE, project_urls |-> [isNone |-> TRUE, items |-> <<>>]],
     [ok |-> TRUE, project_urls |-> [isNone |-> TRUE, items |-> <<>>]]}
    \cup {[ok |-> TRUE, project_urls |-> [isNone |-> FALSE, items |-> it]] :
             it \in SeqsUpTo(ProjectUrls, MaxUrls)}
StatsAnswers ==
    {[ok |-> FALSE, issues |-> NoCounter, prs |-> NoCounter]}
    \cup [ok : {TRUE}, issues : Counters, prs : Counters]
ListingAnswers ==
    {[ok |-> FALSE, rows |-> <<>>]}
    \cup [ok : {TRUE}, rows : SeqsUpTo(Rows, MaxRows)]

\* issue_tracker.py:21 and 39-62  _get_repo_from_pypi
IssueLookup ==
    /\ ipc = "called"
    /\ \E resp \in PypiAnswers :
         LET got == RepoLookup(resp, PackageArg)
         IN  /\ pypiResp' = resp
             /\ requests' = Append(requests, "pypi")
             /\ IF got.raises = None
                THEN /\ repo_info' = got.value
                     /\ warnings' = warnings
                     /\ ipc' = "looked_up"
                ELSE IF IssueHandled(got.raises)
                THEN /\ repo_info' = NoRepo
                     /\ warnings' = Append(warnings, "Error fetching from PyPI")
                     /\ ipc' = "looked_up"
                ELSE /\ repo_info' = NoRepo
                     /\ warnings' = warnings
                     /\ ipc' = "raised"
    /\ UNCHANGED <<statsResp, recentResp, topResp, main_stats, recent_issues,
                   iresult>>

\* issue_tracker.py:22-28  the fallback and the error record:
\* self._search_github_repo is an attribute that IssueTracker does not have
IssueFallback ==
    /\ ipc = "looked_up"
    /\ IF repo_info.found
       THEN /\ ipc' = "resolved"
            /\ iresult' = iresult
       ELSE IF "_search_github_repo" \notin IssueTrackerMethods
       THEN /\ ipc' = "raised"
            /\ iresult' = iresult
       ELSE /\ ipc' = "returned"
            /\ iresult' = [error |-> <<"Could not find GitHub repository for ">>
                                        \o PackageArg]
    /\ UNCHANGED <<pypiResp, statsResp, recentResp, topResp, repo_info,
                   main_stats, recent_issues, requests, warnings>>

\* issue_tracker.py:30 and 64-90  _get_repo_stats
IssueStats ==
    /\ ipc = "resolved"
    /\ \E resp \in StatsAnswers :
         LET got == RepoStats(resp)
         IN  /\ statsResp' = resp
             /\ requests' = Append(requests, "repo_page")
             /\ IF got.raises = None
                THEN /\ main_stats' = got.value
                     /\ warnings' = warnings
                     /\ ipc' = "stats_done"
                ELSE IF IssueHandled(got.raises)
                THEN /\ main_stats' = ZeroStats
                     /\ warnings' = Append(warnings, "Error getting repository stats")
                     /\ ipc' = "stats_done"
                ELSE /\ main_stats' = main_stats
                     /\ warnings' = warnings
                     /\ ipc' = "raised"
    /\ UNCHANGED <<pypiResp, recentResp, topResp, repo_info, recent_issues,
                   iresult>>

\* issue_tracker.py:35 and 92-126  _get_recent_issues
IssueRecent ==
    /\ ipc = "stats_done"
    /\ \E resp \in ListingAnswers :
         LET got == IssueList(resp)
         IN  /\ recentResp' = resp
             /\ requests' = Append(requests, "issues")
             /\ IF got.raises = None
                THEN /\ recent_issues' = got.value
                     /\ warnings' = warnings
                     /\ ipc' = "recent_done"
                ELSE IF IssueHandled(got.raises)
                THEN /\ recent_issues' = <<>>
                     /\ warnings' = Append(warnings, "Error getting recent issues")
                     /\ ipc' = "recent_done"
                ELSE /\ recent_issues' = recent_issues
                     /\ warnings' = warnings
                     /\ ipc' = "raised"
    /\ UNCHANGED <<pypiResp, statsResp, topResp, repo_info, main_stats, iresult>>

\* issue_tracker.py:32-37 and 128-160  _get_top_issues, and the return
IssueTop ==
    /\ ipc = "recent_done"
    /\ \E resp \in ListingAnswers :
         LET got == IssueList(resp)
             summary(top) == [repository |-> repo_info,
                              summary |-> main_stats,
                              recent_issues |-> recent_issues,
                              top_issues |-> top]
         IN  /\ topResp' = resp
             /\ requests' = Append(requests, "issues?q=is:issue&sort=comments")
             /\ IF got.raises = None
                THEN /\ iresult' = summary(got.value)
                     /\ warnings' = warnings
                     /\ ipc' = "returned"
                ELSE IF IssueHandled(got.raises)
                THEN /\ iresult' = summary(<<>>)
                     /\ warnings' = Append(warnings, "Error getting top issues")
                     /\ ipc' = "returned"
                ELSE /\ iresult' = iresult
                     /\ warnings' = warnings
                     /\ ipc' = "raised"
    /\ UNCHANGED <<pypiResp, statsResp, recentResp, repo_info, main_stats,
                   recent_issues>>

IssueStep == IssueLookup \/ IssueFallback \/ IssueStats \/ IssueRecent \/ IssueTop

IssueInit ==
    /\ ipc = "called"
    /\ pypiResp = NoAnswer
    /\ statsResp = NoAnswer
    /\ recentResp = NoAnswer
    /\ topResp = NoAnswer
    /\ repo_info = NoRepo
    /\ main_stats = ZeroStats
    /\ recent_issues = <<>>
    /\ iresult = [returned |-> FALSE]
    /\ requests = <<>>
    /\ warnings = <<>>

----------------------------------------------------------------------------
(* cli.main *)

\* what the steps of main raise: the exceptions above, the Exception that
\* _fetch_vulnerabilities raises, and those of rendering and of saving
MainExceptions ==
    Exceptions \cup {"Exception", "IndexError", "NotRenderableError",
                     "ExecutableNotFound", "OSError", "TypeError"}

\* a mutant of MainCatches: the handler names the request errors only
MainCatchesRequestsOnly(exc) == exc \in RequestErrors

\* cli.py:68  except Exception
MainCatches(exc) == exc \in MainExceptions

\* a mutant of MainHandle: every step has a handler of its own, and main
\* goes on with the step that follows
MainHandleResumes(exc, step) ==
    /\ errorsPrinted' = errorsPrinted + 1
    /\ raisedBy' = step
    /\ mpc' = (CASE step = "fetch" -> "fetched"
                 [] step = "display" -> "displayed"
                 [] step = "security" -> "security_done"
                 [] step = "issues" -> "issues_done"
                 [] step = "graph" -> "graph_done"
                 [] OTHER -> "returned")
    /\ outputs' = outputs

\* cli.py:68-69  the handler of main, for exc raised by step
MainHandle(exc, step) ==
    IF MainCatches(exc)
    THEN /\ errorsPrinted' = errorsPrinted + 1
         /\ raisedBy' = step
         /\ mpc' = "returned"
         /\ outputs' = outputs
    ELSE /\ errorsPrinted' = errorsPrinted
         /\ raisedBy' = step
         /\ mpc' = "escaped"
         /\ outputs' = outputs

\* a step of main that went through: what it put out, and where main stands
MainDone(out, next) ==
    /\ outputs' = outputs \o out
    /\ mpc' = next
    /\ UNCHANGED <<errorsPrinted, raisedBy>>

\* cli.py:41  scraper.fetch_package_info: the request to the registry or the
\* one for the project page fails, or the payload has no info.version
MainFetch ==
    /\ mpc = "start"
    /\ \/ MainDone(<<>>, "fetched")
       \/ \E exc \in {"HTTPError", "ConnectionError", "KeyError"} :
             MainHandle(exc, "fetch")
    /\ UNCHANGED flags

\* cli.py:43-46  utils.display_table or utils.display_json
MainDisplay ==
    /\ mpc = "fetched"
    /\ IF flags.format \in {"table", "json"}
       THEN \/ MainDone(<<flags.format>>, "displayed")
            \/ \E exc \in {"NotRenderableError", "TypeError"} :
                  MainHandle(exc, "display")
       ELSE MainDone(<<>>, "displayed")
    /\ UNCHANGED flags

\* cli.py:48-51  analyze_package raises when the request fails, and when a
\* finding has an empty list of affected entries
MainSecurity ==
    /\ mpc = "displayed"
    /\ IF flags.security
       THEN \/ \E found \in SeqsUpTo(Findings, 1) :
                 IF \E i \in 1..Len(found) : FirstAffectedRaises(found[i])
                 THEN MainHandle("IndexError", "security")
                 ELSE MainDone(<<"security_report">>, "security_done")
            \/ MainHandle("Exception", "security")
       ELSE MainDone(<<>>, "security_done")
    /\ UNCHANGED flags

\* cli.py:53-56  analyze_issues returns a summary when the registry names
\* the repository, and raises otherwise
MainIssues ==
    /\ mpc = "security_done"
    /\ IF flags.issues
       THEN \E resp \in PypiAnswers :
               LET got == RepoLookup(resp, PackageArg)
               IN  IF got.raises = None /\ got.value.found
                   THEN MainDone(<<"issue_report">>, "issues_done")
                   ELSE IF "_search_github_repo" \notin IssueTrackerMethods
                   THEN MainHandle("AttributeError", "issues")
                   ELSE MainDone(<<"issue_error">>, "issues_done")
       ELSE MainDone(<<>>, "issues_done")
    /\ UNCHANGED flags

\* cli.py:58-63  save_dependency_graph: graph.render may fail
MainGraph ==
    /\ mpc = "issues_done"
    /\ IF flags.graph
       THEN \/ MainDone(<<"graph_file">>, "graph_done")
            \/ MainHandle("ExecutableNotFound", "graph")
       ELSE MainDone(<<>>, "graph_done")
    /\ UNCHANGED flags

\* cli.py:65-66  utils.save_results, and the return of main
MainSave ==
    /\ mpc = "graph_done"
    /\ IF flags.save
       THEN \/ MainDone(<<"analysis_file">>, "returned")
            \/ \E exc \in {"OSError", "TypeError"} : MainHandle(exc, "save")
       ELSE MainDone(<<>>, "returned")
    /\ UNCHANGED flags

MainStep ==
    MainFetch \/ MainDisplay \/ MainSecurity \/ MainIssues \/ MainGraph
    \/ MainSave

\* cli.py:15-37  the options of the command line
Flags ==
    [format : {"table", "json", "yaml"}, security : BOOLEAN,
     issues : BOOLEAN, graph : BOOLEAN, save : BOOLEAN]

MainInit ==
    /\ mpc = "start"
    /\ flags \in Flags
    /\ outputs = <<>>
    /\ errorsPrinted = 0
    /\ raisedBy = None

----------------------------------------------------------------------------
(* The components that a specification leaves alone *)

SecIdle ==
    /\ pkgName = <<>>
    /\ vulns = <<>>
    /\ sidx = 0
    /\ processed_data = <<>>
    /\ secpc = "idle"
    /\ severity_score = 0

IssueIdle ==
    /\ ipc = "idle"
    /\ pypiResp = NoAnswer
    /\ statsResp = NoAnswer
    /\ recentResp = NoAnswer
    /\ topResp = NoAnswer
    /\ repo_info = NoRepo
    /\ main_stats = ZeroStats
    /\ recent_issues = <<>>
    /\ iresult = [returned |-> FALSE]
    /\ requests = <<>>
    /\ warnings = <<>>

MainIdle ==
    /\ mpc = "idle"
    /\ flags = [format |-> "table", security |-> FALSE, issues |-> FALSE,
                graph |-> FALSE, save |-> FALSE]
    /\ outputs = <<>>
    /\ errorsPrinted = 0
    /\ raisedBy = None

----------------------------------------------------------------------------
(* The dependency graph and the metadata fetch, over one registry *)

\* the metadata fetch is a call of its own: here it is made once the graph
\* is built, for a package that the graph builder requested, so that both
\* callers meet the same answer of the registry
GraphScraperApi ==
    /\ gpc = "done"
    /\ ScraperApi(visited, {None})
    /\ UNCHANGED <<graphVars, secVars, issueVars, mainVars>>

GraphScraperPage ==
    /\ ScraperPage({FullPage, FailedPage})
    /\ UNCHANGED <<graphVars, secVars, issueVars, mainVars>>

GraphBuild ==
    /\ GraphStep
    /\ UNCHANGED <<scraperVars, secVars, issueVars, mainVars>>

GraphSpecInit ==
    /\ RegistryInit
    /\ GraphInit
    /\ ScraperIdle
    /\ SecIdle
    /\ IssueIdle
    /\ MainIdle

GraphSpecNext == GraphScraperApi \/ GraphScraperPage \/ GraphBuild

\* a call that has started runs to its end: the code is sequential
GraphSpec ==
    GraphSpecInit /\ [][GraphSpecNext]_vars /\ WF_vars(GraphSpecNext)

----------------------------------------------------------------------------
(* Properties of the dependency graph *)

RECURSIVE Closure(_)
\* the transitive closure of a set of edges
Closure(E) ==
    LET E2 == E \cup {<<p[1][1], p[2][2]>> :
                        p \in {q \in E \X E : q[1][2] = q[2][1]}}
    IN  IF E2 = E THEN E ELSE Closure(E2)

IsAcyclic(E) == \A e \in Closure(E) : e[1] # e[2]

\* the edges along which add_dependencies went on to expand their head
ExpansionEdges ==
    {<<l.caller, l.pkg>> : l \in {m \in Range(lookups) : m.caller # <<>>}}

\* the packages that k edges or fewer lead to from the root
RECURSIVE Within(_)
Within(k) ==
    IF k <= 0 THEN {PackageArg}
    ELSE Within(k - 1) \cup {e[2] : e \in {f \in Edges : f[1] \in Within(k - 1)}}

\* the names that the requirement list of an expanded package yields
DeclaredNames(p) ==
    {DepName(registry[p].requires_dist[i]) :
        i \in 1..Len(registry[p].requires_dist)} \ {<<>>}

\* C2, as claimed: the edge set of the returned graph is acyclic
C2_EdgesAcyclic == gpc = "done" => IsAcyclic(Edges)

\* C2, amended: the edges along which add_dependencies expands a package
\* are edges of the graph and form an acyclic set, with at most one such
\* edge into a package and none into the root: the expansion is a tree over
\* the visited set, while an edge to a package already visited is emitted
\* too and may close a cycle
C2_ExpansionAcyclic ==
    /\ ExpansionEdges \subseteq Edges
    /\ IsAcyclic(ExpansionEdges)
    /\ \A e \in ExpansionEdges : e[2] # PackageArg /\ e[2] \in visited
    /\ \A e, f \in ExpansionEdges : e[2] = f[2] => e = f

\* a cyclic relation a -> b -> a was expanded and the graph returned
C2_Witness ==
    /\ gpc = "done"
    /\ <<<<"a">>, <<"b">>>> \in ExpansionEdges
    /\ <<<<"b">>, <<"a">>>> \in Edges

\* C3: a package is expanded (marked visited, requested from the registry)
\* at most once, never at a depth >= maxDepth, and every edge starts at a
\* package expanded below maxDepth that fewer than maxDepth edges lead to
C3_ExpandOnceWithinDepth ==
    /\ \A i, j \in 1..Len(lookups) :
          lookups[i].pkg = lookups[j].pkg => i = j
    /\ \A l \in Range(lookups) : l.depth < maxDepth /\ l.pkg \in visited
    /\ visited = {l.pkg : l \in Range(lookups)}
    /\ \A e \in Edges :
          /\ \E l \in Range(lookups) : l.pkg = e[1] /\ l.depth + 1 <= maxDepth
          /\ e[1] \in Within(maxDepth - 1)

\* a package reached over two paths: the first time too deep to be
\* expanded, the second time expanded
C3_Witness ==
    /\ gpc = "done"
    /\ maxDepth = 2
    /\ Len(lookups) = 3
    /\ \E i \in 1..Len(dot) - 1 :
          /\ dot[i] = EdgeStmt(<<"b">>, <<"c">>)
          /\ dot[i + 1] = EdgeStmt(<<"a">>, <<"c">>)
    /\ <<"c">> \in Nodes

\* the packages of the returned graph: those of its node statements and the
\* end points of its edges, which the renderer draws as nodes too
GraphPackages == Nodes \cup {e[1] : e \in Edges} \cup {e[2] : e \in Edges}

\* the packages whose requirement list add_dependencies went through
Expanded == {p \in visited : registry[p].ok}

\* C13: where add_dependencies stops, by depth or by the visited set, what
\* led there is in the returned graph all the same: the edge to every
\* dependency that an expanded package declares, with its head as a
\* package of the graph, and, for every max_depth >= 0, the root package
C13_StoppedStillInGraph ==
    gpc = "done" =>
        /\ PackageArg \in GraphPackages
        /\ \A p \in Expanded : \A d \in DeclaredNames(p) :
              <<p, d>> \in Edges /\ d \in GraphPackages

\* C4: create_dependency_graph ends and returns its graph, whatever the
\* relation, the depth and the requests that fail
C4_Terminates == <>(gpc = "done")

\* the graph of a cyclic relation with a failed request was returned
C4_Witness ==
    /\ gpc = "done"
    /\ <<<<"a">>, <<"b">>>> \in Edges
    /\ <<<<"b">>, <<"a">>>> \in Edges
    /\ GrayNodes # {}

\* C8: a failed request makes fetch_package_info raise and return no
\* record; create_dependency_graph adds the package as a gray node with no
\* edge out of it, does not expand it, goes on with the requirements of
\* the package that declared it and returns the graph
C8_DivergentPolicies ==
    /\ spc # "idle" /\ ~registry[sarg.name].ok
          => spc = "raised" /\ srecord = NoRecord
    /\ spc = "raised" => srecord = NoRecord
    /\ gpc # "raised"
    /\ \A p \in visited :
          ~registry[p].ok =>
              /\ p \in GrayNodes
              /\ \A e \in Edges : e[1] # p
              /\ \A i \in 1..Len(stack) : stack[i].pkg # p
    /\ gpc = "done" =>
          \A p \in visited :
              registry[p].ok =>
                  \A q \in DeclaredNames(p) : <<p, q>> \in Edges

\* the request for b failed: the fetch of b raised, and the graph of a,
\* which declares b and then c, holds b in gray and c expanded
C8_Witness ==
    /\ spc = "raised"
    /\ sarg.name = <<"b">>
    /\ gpc = "done"
    /\ <<"b">> \in GrayNodes
    /\ registry[<<"a">>].ok
    /\ Len(registry[<<"a">>].requires_dist) = 2
    /\ DepName(registry[<<"a">>].requires_dist[1]) = <<"b">>
    /\ <<"c">> \in Nodes \ GrayNodes
    /\ <<<<"a">>, <<"c">>>> \in Edges

----------------------------------------------------------------------------
(* The vulnerability report *)

SecSpecInit ==
    /\ RegistryInit
    /\ GraphIdle
    /\ ScraperIdle
    /\ SecInit
    /\ IssueIdle
    /\ MainIdle

SecSpecNext ==
    /\ SecStep
    /\ UNCHANGED <<registry, graphVars, scraperVars, issueVars, mainVars>>

SecSpec == SecSpecInit /\ [][SecSpecNext]_vars

\* the finding that an entry of the report was made from
FindingOf(info) == CHOOSE f \in Findings : f.id = info.id

\* the score of the finding behind an entry of the report
ScoreOf(info) == SeverityScore(FindingOf(info), pkgName)

Reported ==
    IF secpc \in {"loop", "raised", "returned"}
    THEN processed_data.vulnerabilities ELSE <<>>

\* the entries that the loop makes of the findings, in the order given
Expected ==
    [i \in 1..Len(vulns) |->
        VulnInfo(vulns[i], DetermineSeverity(vulns[i], pkgName))]

LastScored ==
    CASE secpc = "loop" -> sidx - 1
      [] secpc = "raised" -> sidx
      [] secpc = "returned" -> Len(vulns)
      [] OTHER -> 0

\* the critical keywords that the text of a finding holds
KeywordsIn(f) ==
    {kw \in CriticalKeywords :
        Contains(LowerText(f.summary) \o LowerText(f.details), kw)}

\* the affected entries of a finding that are flagged affects_security
FlaggedEntries(f) ==
    {i \in 1..Len(f.affected.entries) :
        f.affected.entries[i].ecosystem_specific = AffectsSecurity}

\* C12: the score of a finding, in tenths, is its cvss_score when that is a
\* number (else 0), plus 20 for each critical keyword in summary+details,
\* plus 10 for a security-critical package, plus 15 when the text holds
\* cryptographic, encryption or authentication, plus 20 for each affected
\* entry flagged affects_security. So cvss_score 9.8 with "remote code
\* execution" in the summary scores 12.8 for cryptography and is CRITICAL,
\* and "minor formatting issue" without a cvss_score scores 0 for
\* some-unknown-pkg and is LOW
C12_ScoreIsSum ==
    LastScored >= 1 =>
        LET f == vulns[LastScored]
            text == LowerText(f.summary) \o LowerText(f.details)
        IN  /\ severity_score =
                  (IF f.cvss.kind = "number" THEN f.cvss.tenths ELSE 0)
                  + 20 * Cardinality(KeywordsIn(f))
                  + (IF LowerText(pkgName) \in SecurityCriticalPackages
                     THEN 10 ELSE 0)
                  + (IF \/ Contains(text, <<"cryptographic">>)
                        \/ Contains(text, <<"encryption">>)
                        \/ Contains(text, <<"authentication">>)
                     THEN 15 ELSE 0)
                  + 20 * Cardinality(FlaggedEntries(f))
            /\ (/\ f.cvss = Cvss(98)
                /\ KeywordsIn(f) = {<<"remote", " ", "code", " ", "execution">>}
                /\ FlaggedEntries(f) = {}
                /\ pkgName = <<"cryptography">>)
               => /\ severity_score = 128
                  /\ secpc = "loop" => Last(Reported).severity = "CRITICAL"
            /\ (/\ f.cvss = NoCvss
                /\ f.summary = <<"minor", " ", "formatting", " ", "issue">>
                /\ f.affected = NoAffected
                /\ pkgName = <<"some-unknown-pkg">>)
               => /\ severity_score = 0
                  /\ secpc = "loop" => Last(Reported).severity = "LOW"

\* the first example of C12 was scored after a finding with two flagged
\* entries and a cvss_score that is no number
C12_Witness ==
    /\ secpc = "loop"
    /\ LastScored = 2
    /\ pkgName = <<"cryptography">>
    /\ vulns[1].cvss = BadCvss
    /\ Cardinality(FlaggedEntries(vulns[1])) = 2
    /\ vulns[2].cvss = Cvss(98)
    /\ <<"remote", " ", "code", " ", "execution">> \in KeywordsIn(vulns[2])
    /\ severity_score = 128
    /\ Last(Reported).severity = "CRITICAL"

\* C15: every finding gives one record of the report, with the annotation
\* of its first affected entry and with the fixed events of the ECOSYSTEM
\* ranges of all its affected entries, in order; a finding without
\* affected entries (no key, or an empty list) gives an empty annotation and
\* no fixed version, and the report is returned all the same
C15_RecordPerFinding ==
    /\ secpc # "raised"
    /\ secpc = "returned" =>
          /\ Len(processed_data.vulnerabilities) = Len(vulns)
          /\ \A v \in Range(processed_data.vulnerabilities) :
                LET f == FindingOf(v)
                IN  /\ v.fixed_versions = FixedVersions(f)
                    /\ f.id = "V1" => v.fixed_versions = <<"1.1">>
                    /\ f.id = "V5" => v.fixed_versions = <<"2.0">>
                    /\ IF f.affected.entries = <<>>
                       THEN /\ v.fixed_versions = <<>>
                            /\ v.ecosystem_specific = NoAnnotation
                       ELSE v.ecosystem_specific =
                               f.affected.entries[1].ecosystem_specific

\* C6: the vulnerabilities of a returned report are the processed findings,
\* by non-decreasing severity rank, those of one severity in input order
C6_SortedStable ==
    secpc = "returned" =>
        LET V == processed_data.vulnerabilities
        IN  /\ Len(V) = Len(vulns)
            /\ \A i \in 1..Len(V) - 1 :
                  SeverityOrder(V[i].severity) <= SeverityOrder(V[i + 1].severity)
            /\ \A sev \in Severities :
                  SelectSeq(V, LAMBDA v : v.severity = sev)
                      = SelectSeq(Expected, LAMBDA v : v.severity = sev)

\* three findings, given as HIGH, HIGH, CRITICAL with the two HIGH ones
\* distinct, were sorted
C6_Witness ==
    /\ secpc = "returned"
    /\ Len(vulns) = 3
    /\ Expected[1].severity = "HIGH"
    /\ Expected[2].severity = "HIGH"
    /\ Expected[1].id # Expected[2].id
    /\ Expected[3].severity = "CRITICAL"
    /\ processed_data.vulnerabilities = <<Expected[3], Expected[1], Expected[2]>>

\* C7: severity_counts of a returned report has the keys CRITICAL, HIGH,
\* MEDIUM and LOW and no other, its counts add up to total_vulnerabilities,
\* which is the length of the list of vulnerabilities
C7_CountsAddUp ==
    secpc = "returned" =>
        /\ DOMAIN processed_data.severity_counts = Severities
        /\ processed_data.severity_counts["CRITICAL"]
             + processed_data.severity_counts["HIGH"]
             + processed_data.severity_counts["MEDIUM"]
             + processed_data.severity_counts["LOW"]
             = processed_data.total_vulnerabilities
        /\ processed_data.total_vulnerabilities
             = Len(processed_data.vulnerabilities)
        /\ \A sev \in Severities :
              processed_data.severity_counts[sev]
                 = Len(SelectSeq(processed_data.vulnerabilities,
                                 LAMBDA v : v.severity = sev))

\* a report of two LOW findings and a HIGH one: two counts are 0
C7_Witness ==
    /\ secpc = "returned"
    /\ processed_data.total_vulnerabilities = 3
    /\ processed_data.severity_counts["LOW"] = 2
    /\ processed_data.severity_counts["HIGH"] = 1
    /\ processed_data.severity_counts["CRITICAL"] = 0
    /\ processed_data.severity_counts["MEDIUM"] = 0

----------------------------------------------------------------------------
(* The issue analysis *)

IssueSpecInit ==
    /\ RegistryInit
    /\ GraphIdle
    /\ ScraperIdle
    /\ SecIdle
    /\ IssueInit
    /\ MainIdle

IssueSpecNext ==
    /\ IssueStep
    /\ UNCHANGED <<registry, graphVars, scraperVars, secVars, mainVars>>

IssueSpec == IssueSpecInit /\ [][IssueSpecNext]_vars

\* the registry was asked and gave no repository URL: the request failed,
\* or no project URL holds the hostname
NoRegistryUrl ==
    /\ ipc # "called"
    /\ RepoLookup(pypiResp, PackageArg) \in
          {Raises("HTTPError"), Raises("AttributeError"), Value(NoRepo)}

\* the requests for the repository page and for the listings
RepositoryRequests ==
    {"repo_page", "issues", "issues?q=is:issue&sort=comments"}

\* C1: when the registry gives no repository URL and the fallback finds
\* none, analyze_issues returns the error record, it does not raise, and no
\* request for the repository page or for a listing is made
C1_ErrorRecord ==
    /\ NoRegistryUrl => Range(requests) \cap RepositoryRequests = {}
    /\ NoRegistryUrl /\ ipc \in {"returned", "raised"} =>
          /\ ipc = "returned"
          /\ iresult = [error |-> <<"Could not find GitHub repository for ">>
                                     \o PackageArg]

\* a call fails: a request that fails, or an answer that cannot be parsed
Fails(got) == got.raises # None

\* C9: once the repository is resolved analyze_issues raises nothing and
\* returns a summary with the keys repository, summary, recent_issues and
\* top_issues; a call among stats, recent and top that fails gives its zero
\* value, and what each call gives depends on its own answer only
C9_PartialSummary ==
    /\ ipc = "raised" => ~repo_info.found
    /\ ipc = "returned" /\ repo_info.found =>
          /\ DOMAIN iresult =
                {"repository", "summary", "recent_issues", "top_issues"}
          /\ iresult.repository = repo_info
          /\ iresult.summary =
                IF Fails(RepoStats(statsResp)) THEN ZeroStats
                ELSE RepoStats(statsResp).value
          /\ iresult.recent_issues =
                IF Fails(IssueList(recentResp)) THEN <<>>
                ELSE IssueList(recentResp).value
          /\ iresult.top_issues =
                IF Fails(IssueList(topResp)) THEN <<>>
                ELSE IssueList(topResp).value

\* the stats could not be parsed and the top listing held a link with no
\* href, while the recent listing gave an issue: it is in the summary
C9_Witness ==
    /\ ipc = "returned"
    /\ repo_info.found
    /\ RepoStats(statsResp) = Raises("ValueError")
    /\ IssueList(topResp) = Raises("KeyError")
    /\ iresult.summary = ZeroStats
    /\ iresult.top_issues = <<>>
    /\ Len(iresult.recent_issues) = 1
    /\ iresult.recent_issues[1].title = <<"Crash on start">>

----------------------------------------------------------------------------
(* The command line *)

MainSpecInit ==
    /\ RegistryInit
    /\ GraphIdle
    /\ ScraperIdle
    /\ SecIdle
    /\ IssueIdle
    /\ MainInit

MainSpecNext ==
    /\ MainStep
    /\ UNCHANGED <<registry, graphVars, scraperVars, secVars, issueVars>>

MainSpec == MainSpecInit /\ [][MainSpecNext]_vars

\* C10: whatever the options and whichever step raises, no exception leaves
\* main: main prints one error message for the failure and returns, and it
\* prints none when no step raises
C10_MainCatchesAll ==
    /\ mpc # "escaped"
    /\ errorsPrinted = (IF raisedBy = None THEN 0 ELSE 1)
    /\ raisedBy # None => mpc = "returned"

\* with every option set, the last step, the save, raised
C10_Witness ==
    /\ mpc = "returned"
    /\ flags.security /\ flags.issues /\ flags.graph /\ flags.save
    /\ raisedBy = "save"
    /\ errorsPrinted = 1
    /\ outputs = <<"table", "security_report", "issue_report", "graph_file">>

\* the steps of main in the order of the code, and the step that an
\* output comes from
StepOrder == <<"fetch", "display", "security", "issues", "graph", "save">>
RankOf(step) == CHOOSE i \in 1..Len(StepOrder) : StepOrder[i] = step
StepOf(out) ==
    CASE out \in {"table", "json"} -> "display"
      [] out = "security_report" -> "security"
      [] out \in {"issue_report", "issue_error"} -> "issues"
      [] out = "graph_file" -> "graph"
      [] out = "analysis_file" -> "save"

\* the step was asked for on the command line
Requested(step) ==
    CASE step = "fetch" -> TRUE
      [] step = "display" -> flags.format \in {"table", "json"}
      [] step = "security" -> flags.security
      [] step = "issues" -> flags.issues
      [] step = "graph" -> flags.graph
      [] step = "save" -> flags.save

\* the steps that put something out
Produced == {StepOf(outputs[i]) : i \in 1..Len(outputs)}

\* C17: the steps of main run in the order fetch, display, security,
\* issues, graph, save, and only those asked for; once a step fails no later
\* step runs, so the analysis file is written only when every requested
\* step before the save went through, and a failed fetch leaves no output
C17_StepsInOrder ==
    /\ \A i, j \in 1..Len(outputs) :
          i < j => RankOf(StepOf(outputs[i])) < RankOf(StepOf(outputs[j]))
    /\ \A step \in Produced : Requested(step)
    /\ raisedBy # None =>
          /\ mpc \in {"returned", "escaped"}
          /\ \A step \in Produced : RankOf(step) < RankOf(raisedBy)
          /\ "analysis_file" \notin Range(outputs)
    /\ raisedBy = "fetch" => outputs = <<>>
    /\ "analysis_file" \in Range(outputs) =>
          /\ flags.save
          /\ \A step \in Range(StepOrder) \ {"fetch"} :
                Requested(step) => step \in Produced
    /\ (mpc = "returned" /\ raisedBy = None) =>
          \A step \in Range(StepOrder) \ {"fetch"} :
              Requested(step) => step \in Produced

\* with every option set the graph step failed: the steps before it put
\* out their results and no analysis file was written
C17_Witness ==
    /\ mpc = "returned"
    /\ flags.security /\ flags.issues /\ flags.graph /\ flags.save
    /\ raisedBy = "graph"
    /\ outputs = <<"json", "security_report", "issue_report">>

----------------------------------------------------------------------------
(* The metadata fetch *)

ScraperFetchApi ==
    /\ ScraperApi({PackageArg}, {None, "1.0"})
    /\ UNCHANGED <<graphVars, secVars, issueVars, mainVars>>

ScraperFetchPage ==
    /\ ScraperPage(Pages)
    /\ UNCHANGED <<graphVars, secVars, issueVars, mainVars>>

ScraperSpecInit ==
    /\ RegistryInit
    /\ GraphIdle
    /\ ScraperIdle
    /\ SecIdle
    /\ IssueIdle
    /\ MainIdle

ScraperSpecNext == ScraperFetchApi \/ ScraperFetchPage

ScraperSpec == ScraperSpecInit /\ [][ScraperSpecNext]_vars

\* the project page was asked for and answered
PageAnswered == spc \in {"returned", "raised"} /\ spage # NoPage

\* the markup that a field is read from is not on the page
NoInstallMarkup == ~spage.install.present
NoReleaseMarkup == \A i \in 1..Len(spage.cards) : ~spage.cards[i].present
NoStatsMarkup == ~spage.stats.present
NoMaintainerMarkup == ~spage.maintainers.present

\* C11: in the record made of a project page, every supplementary field
\* whose markup is not on the page is empty (the installation snippet the
\* empty string, the releases and the maintainers the empty list, the stats
\* the empty mapping), and a page that was served gives a record
C11_AbsentMarkupGivesEmpty ==
    PageAnswered /\ spage.ok =>
        /\ spc = "returned"
        /\ NoInstallMarkup => srecord.installation_guide = <<>>
        /\ NoReleaseMarkup => srecord.latest_releases = <<>>
        /\ NoStatsMarkup => srecord.project_stats = <<>>
        /\ NoMaintainerMarkup => srecord.community_info.maintainers = <<>>

\* C11, but for the installation snippet: the fields other than the
\* snippet are empty when their markup is not on the page
C11_OtherFieldsEmpty ==
    PageAnswered /\ spage.ok =>
        /\ spc = "returned"
        /\ NoReleaseMarkup => srecord.latest_releases = <<>>
        /\ NoStatsMarkup => srecord.project_stats = <<>>
        /\ NoMaintainerMarkup => srecord.community_info.maintainers = <<>>

----------------------------------------------------------------------------
(* The dependency graph over a registry of four packages that is known     *)
(* from the start                                                          *)

\* the packages of the registry, and the name that a requirement with a
\* version constraint and no space yields: the registry has no such package
DeepPackages == {<<"a">>, <<"b">>, <<"c">>, <<"d">>}
Pinned == <<"b", ">=1">>

\* the requirement strings of the root: "b", "c" and "b>=1; m"
RootRequirements == {<<"b">>, <<"c">>, <<"b", ">=1", ";", " ", "m">>}

\* the requirement strings that the root declares
MaxRootDeps == 2

\* a payload with the requirement strings deps, and the answer 404
Payload(deps) == [known |-> TRUE, ok |-> TRUE, requires_dist |-> deps]
NotThere == [known |-> TRUE, ok |-> FALSE, requires_dist |-> <<>>]

\* the registries: a declares up to MaxRootDeps requirements, each other
\* package one or none
DeepRegistries ==
    {[p \in DeepPackages \cup {Pinned} |->
        CASE p = <<"a">> -> Payload(ra)
          [] p = <<"b">> -> Payload(rb)
          [] p = <<"c">> -> Payload(rc)
          [] p = <<"d">> -> Payload(rd)
          [] OTHER -> NotThere] :
     ra \in SeqsUpTo(RootRequirements, MaxRootDeps),
     rb \in SeqsUpTo({<<"c">>, <<"d">>}, 1),
     rc \in SeqsUpTo({<<"d">>, <<"a">>}, 1),
     rd \in SeqsUpTo({<<"a">>}, 1)}

DeepSpecInit ==
    /\ registry \in DeepRegistries
    /\ GraphInit
    /\ ScraperIdle
    /\ SecIdle
    /\ IssueIdle
    /\ MainIdle

DeepSpecNext == GraphBuild

DeepSpec == DeepSpecInit /\ [][DeepSpecNext]_vars

\* a token that is a version constraint, and one of an environment marker
IsConstraint(t) == t \in {"(>1)", ">=1"}
IsMarker(t) == t \in {";", "m"}

\* C14: the name that the graph builder takes from a requirement string, as
\* head of the edge and as argument of the recursion, is the text before
\* the first space or semicolon and holds neither a version constraint nor
\* an environment marker
C14_NameOnly ==
    /\ \A p \in Expanded : \A i \in 1..Len(registry[p].requires_dist) :
          LET dep == registry[p].requires_dist[i]
              cut == CHOOSE k \in 1..Len(dep) + 1 :
                        /\ k = Len(dep) + 1 \/ dep[k] \in {" ", ";"}
                        /\ \A j \in 1..k - 1 : dep[j] \notin {" ", ";"}
          IN  DepName(dep) = SubSeq(dep, 1, cut - 1)
    /\ \A n \in {e[2] : e \in Edges} \cup {l.pkg : l \in Range(lookups)} :
          \A i \in 1..Len(n) : ~IsConstraint(n[i]) /\ ~IsMarker(n[i])

\* the packages that k declared dependencies or fewer lead to from the root
RECURSIVE DeclaredWithin(_)
DeclaredWithin(k) ==
    IF k < 0 THEN {}
    ELSE IF k = 0 THEN {PackageArg}
    ELSE DeclaredWithin(k - 1)
         \cup UNION {DeclaredNames(p) : p \in DeclaredWithin(k - 1)}

\* C16: when no request fails, every package at a distance below max_depth
\* from the root is expanded: the returned graph has an edge for each
\* dependency it declares, in whatever order dependencies are declared
C16_CompleteToDepth ==
    (gpc = "done" /\ \A p \in visited : registry[p].ok) =>
        \A p \in DeclaredWithin(maxDepth - 1) : \A d \in DeclaredNames(p) :
            <<p, d>> \in Edges

====
